---- MODULE Spec2Model ----
(***************************************************************************)
(* Model of the tour-construction engine of the aboutwater Route Optimizer *)
(* (app/services/route_optimizer.py, app/models.py, app/config.py), and of *)
(* the further calls that POST /optimize makes on the stored stops         *)
(* (app/api/routes.py, app/services/address_manager.py).                   *)
(*                                                                         *)
(* Address objects live in a heap `addr` (reference -> fields); lists hold *)
(* references, as the Python lists do.  Coordinates are integers in        *)
(* micro-degrees, distances are integers in metres (the haversine value of *)
(* the code rounded to the metre), and a candidate's score is the code's   *)
(* weighted sum multiplied by 160000, which makes every term an integer.   *)
(***************************************************************************)
EXTENDS Integers, Sequences, FiniteSets, TLC

(***************************************************************************)
(* Bounds of the model.                                                    *)
(***************************************************************************)
\* largest number of stops in a freely chosen input pool
MaxStops == 3
\* largest number of optimize_routes calls made on one set of stops
MaxCalls == 2
\* largest pool on which a further call is made
MaxRepeatStops == 2
\* the stored stops of a request that has to geocode
MaxStored == 2

(***************************************************************************)
(* Program constants.                                                      *)
(***************************************************************************)
\* Optional[...] fields holding None
None == -1

\* Priority(int, Enum) member values
STANDARD == 0
HIGH == 1
MEDIUM == 2
LOW == 3

\* settings.MAX_BOTTLES_PER_TRIP
MAX_BOTTLES_PER_TRIP == 80
\* settings.AVERAGE_SPEED_KMH
AVERAGE_SPEED_KMH == 50

\* HQLocation.lat / HQLocation.lon, in micro-degrees
HQ_LAT == 48106700
HQ_LON == 11424700

\* Address.id of the depot placeholder made by _create_hq_refill_stop
HQ_REFILL_ID == "HQ-REFILL"

\* estimated_time of a refill tour, in minutes
REFILL_MINUTES == 15

\* number of stops of test_scenario_1 and their demand
SCENARIO1_STOPS == 30
SCENARIO1_BOTTLES == 5

(***************************************************************************)
(* Input domains.                                                          *)
(***************************************************************************)
\* coordinates a stop may be geocoded to: <<lat, lon>> in micro-degrees
PNear == <<48130000, 11450000>>
PMid == <<48135100, 11582000>>
PFar == <<48370500, 10897800>>
PNext == <<48140000, 11460000>>
PHq == <<HQ_LAT, HQ_LON>>
\* a place on the prime meridian, at the latitude of the depot, and the
\* position of a stop that has none
PMeridian == <<HQ_LAT, 0>>
PUnset == <<None, None>>

\* demands of a freely chosen pool: 30 + 50 fills a tour exactly, 50 + 50
\* does not fit one tour, 90 fits no tour
BottleValues == {0, 30, 50, 90}
\* priorities of a freely chosen pool (None is an unset priority)
Priorities == {None, HIGH, LOW}
\* positions of a freely chosen pool
Points == {PNear}
\* test_scenario_1: priorities, positions, and where the second group starts
ScenarioPriorities == {None, HIGH}
ScenarioPoints == {PNear, PFar}
ScenarioCuts == {0, 16}
\* the members of Priority, and None for an unset priority
AllPriorities == {None, STANDARD, HIGH, MEDIUM, LOW}
\* pools of three stops of one demand that take every priority
RankingPoints == {PNear, PFar}
RankingBottles == {40}
\* pools of stops of one demand laid out for the clustering look-ahead: a
\* stop with four others within 10 km, and a stop far from two others that
\* are 9.8 km apart
ClusterLayouts == {<<PNear, PMid, PMid, PMid, PNext>>, <<PNear, PMid, PFar>>}
ClusterPriorities == {None, HIGH}
ClusterBottles == {10}
\* pools of stops on the prime meridian and of stops without a position
MeridianPoints == {PMeridian, PUnset}
MeridianBottles == {50}
\* the stored stops of a request that has to geocode: each is geocoded or
\* not; the places the geocoding service finds
StoredPoints == {PNear, PUnset}
StoredBottles == {50}
GeocodedPoints == {PNear, PNext}

(***************************************************************************)
(* Sequence helpers.                                                       *)
(***************************************************************************)
Min(a, b) == IF a < b THEN a ELSE b
Max(a, b) == IF a > b THEN a ELSE b

\* faulty variant of Remove: drops the head of the list, whatever x is
RemoveHead(s, x) == IF s = <<>> THEN <<>> ELSE Tail(s)

\* list.remove(x): drop the first occurrence of x.  Python compares Address
\* objects field by field; the ids of the stops are distinct (uuid4), so the
\* first equal element is the object itself
RECURSIVE Remove(_, _)
Remove(s, x) ==
    IF s = <<>> THEN <<>>
    ELSE IF Head(s) = x THEN Tail(s)
         ELSE <<Head(s)>> \o Remove(Tail(s), x)

RECURSIVE SumSeq(_)
SumSeq(s) == IF s = <<>> THEN 0 ELSE Head(s) + SumSeq(Tail(s))

Range(s) == {s[i] : i \in 1..Len(s)}

(***************************************************************************)
(* Geo-distance.                                                           *)
(***************************************************************************)
\* 6371 * 2 * asin(sqrt(a)) of the haversine formula, in metres, tabulated
\* for the coordinates of the model
Haversine(lat1, lon1, lat2, lon2) ==
    LET p == <<lat1, lon1>>
        q == <<lat2, lon2>>
        Is(a, b) == (p = a /\ q = b) \/ (p = b /\ q = a)
    IN  IF p = q THEN 0
        ELSE IF Is(PHq, PNear) THEN 3200
        ELSE IF Is(PHq, PMid) THEN 12096
        ELSE IF Is(PHq, PFar) THEN 48817
        ELSE IF Is(PHq, PNext) THEN 4536
        ELSE IF Is(PHq, PMeridian) THEN 847503
        ELSE IF Is(PNear, PNext) THEN 1337
        ELSE IF Is(PMid, PNext) THEN 9069
        ELSE IF Is(PFar, PNext) THEN 48881
        ELSE IF Is(PNear, PMid) THEN 9812
        ELSE IF Is(PNear, PFar) THEN 48855
        ELSE CASE Is(PMid, PFar) -> 57020

\* truth value of an Optional[float]: None and 0 are false
Falsy(x) == x = None \/ x = 0

\* `x or 0` on an Optional[float]
OrZero(x) == IF Falsy(x) THEN 0 ELSE x

\* RouteOptimizer._calculate_distance, in metres
_calculate_distance(lat1, lon1, lat2, lon2) ==
    IF Falsy(lat1) \/ Falsy(lon1) \/ Falsy(lat2) \/ Falsy(lon2) THEN 0
    ELSE Haversine(lat1, lon1, lat2, lon2)

(***************************************************************************)
(* State.                                                                  *)
(***************************************************************************)
VARIABLES
    addr,                 \* heap of Address objects: reference -> fields
    addresses,            \* the caller's list passed to optimize_routes
    pc,                   \* position of the call
    remaining_addresses,  \* optimize_routes: the pool
    tours,                \* optimize_routes: the tours built so far
    tour_id,              \* optimize_routes: the tour-id counter
    tour_addresses,       \* _create_single_tour: stops placed in this tour
    current_bottles,      \* _create_single_tour: load of this tour
    current_location,     \* _create_single_tour: <<lat, lon>> of the vehicle
    returned,             \* what the earlier calls on these stops returned
    store,                \* AddressManager.addresses: the stored objects
    handler_addresses,    \* POST /optimize: the handler's local `addresses`
    addresses_to_geocode, \* geocode_addresses: the objects still to geocode
    locations,            \* utils optimize_route: the argument
    force_return_to_hq,   \* utils optimize_route: the argument
    route_pc,             \* utils optimize_route: position of the call
    tour_stops,           \* utils optimize_route: the stops of the tour
    remaining_customers,  \* utils optimize_route: customers not yet visited
    route_location,       \* utils optimize_route: its current_location
    route_distance,       \* utils optimize_route: its total_distance, metres
    route_tours,          \* utils optimize_route: the returned list
    rows,                 \* file upload: the priority cells of the rows
    row_index,            \* file upload: the row _process_dataframe is at
    extracted             \* file upload: the addr_data of the rows done

vars == <<addr, addresses, pc, remaining_addresses, tours, tour_id,
          tour_addresses, current_bottles, current_location, returned,
          store, handler_addresses, addresses_to_geocode,
          locations, force_return_to_hq, route_pc, tour_stops,
          remaining_customers, route_location, route_distance, route_tours,
          rows, row_index, extracted>>

\* the state of the /optimize handler and of the address store
handler_vars == <<store, handler_addresses, addresses_to_geocode>>

\* the state of the nearest-neighbour optimizer of utils/route_optimizer.py
route_vars == <<locations, force_return_to_hq, route_pc, tour_stops,
                remaining_customers, route_location, route_distance,
                route_tours>>

\* the state of the file upload
upload_vars == <<rows, row_index, extracted>>

\* the state of the tour-construction engine
engine_vars == <<addr, addresses, pc, remaining_addresses, tours, tour_id,
                 tour_addresses, current_bottles, current_location, returned>>

\* the value a lookup returns when there is no Address
NoAddress == 0

(***************************************************************************)
(* Stop Ranking.                                                           *)
(***************************************************************************)
\* sort_key of _sort_addresses_by_priority_and_distance
sort_key(a) ==
    LET priority_weight ==
            IF addr[a].priority = None THEN 3
            ELSE IF addr[a].priority = 1 THEN 0
            ELSE IF addr[a].priority = 2 THEN 1
            ELSE 2
        distance == _calculate_distance(HQ_LAT, HQ_LON,
                                        OrZero(addr[a].lat), OrZero(addr[a].lon))
    IN  <<priority_weight, distance>>

\* tuple comparison k1 < k2
TupleLess(k1, k2) == k1[1] < k2[1] \/ (k1[1] = k2[1] /\ k1[2] < k2[2])

\* x put into the sorted list s behind every element that is not greater
RECURSIVE InsertSorted(_, _)
InsertSorted(s, x) ==
    IF s = <<>> THEN <<x>>
    ELSE IF TupleLess(sort_key(x), sort_key(Head(s))) THEN <<x>> \o s
         ELSE <<Head(s)>> \o InsertSorted(Tail(s), x)

\* sorted(s, key=sort_key): a stable sort
RECURSIVE SortInto(_, _)
SortInto(acc, s) ==
    IF s = <<>> THEN acc ELSE SortInto(InsertSorted(acc, Head(s)), Tail(s))

_sort_addresses_by_priority_and_distance(s) == SortInto(<<>>, s)

(***************************************************************************)
(* Clustering look-ahead and Candidate Scorer.  Scores are in thousandths; *)
(* the total is the code's total_score times 160000.                       *)
(***************************************************************************)
\* distance between two Address objects, each coordinate taken `or 0`
DistanceBetween(a, b) ==
    _calculate_distance(OrZero(addr[a].lat), OrZero(addr[a].lon),
                        OrZero(addr[b].lat), OrZero(addr[b].lon))

\* the test that puts a candidate into nearby_addresses
IsNearby(target, candidate, remaining_capacity) ==
    /\ addr[candidate].id # addr[target].id
    /\ DistanceBetween(target, candidate) <= 10000
    /\ addr[candidate].bottles <= remaining_capacity - addr[target].bottles

_calculate_cluster_bonus(target, candidates, remaining_capacity) ==
    IF Len(candidates) <= 1 THEN 0
    ELSE LET nearby_addresses ==
                 SelectSeq(candidates,
                           LAMBDA c : IsNearby(target, c, remaining_capacity))
             first3 == SubSeq(nearby_addresses, 1, Min(3, Len(nearby_addresses)))
             bonus == SumSeq([i \in 1..Len(first3) |->
                                Max(0, 5000 - DistanceBetween(target, first3[i]))])
         IN  IF nearby_addresses = <<>> THEN 5000 ELSE Max(0, 5000 - bonus)

\* faulty variants of Fits: the test against the capacity of an empty
\* vehicle, no test at all, and a strict comparison
FitsIgnoringLoad(a, remaining_capacity) ==
    addr[a].bottles <= MAX_BOTTLES_PER_TRIP

FitsAlways(a, remaining_capacity) == TRUE

FitsStrict(a, remaining_capacity) == addr[a].bottles < remaining_capacity

\* another faulty variant of Fits: a stop marked optimized by an earlier
\* call is passed over
FitsUnlessOptimized(a, remaining_capacity) ==
    ~addr[a].optimized /\ addr[a].bottles <= remaining_capacity

\* the feasibility test of _find_next_best_address
Fits(a, remaining_capacity) == addr[a].bottles <= remaining_capacity

\* faulty variant of total_score: the priority score taken as if 3 were the
\* most urgent value (the reading of AddressManager.add_address's docstring)
ScoreHighIsThree(a, location, feasible, remaining_capacity) ==
    LET distance == _calculate_distance(location[1], location[2],
                                        OrZero(addr[a].lat), OrZero(addr[a].lon))
        distance_score == Min(distance, 100000)
        priority_score ==
            IF addr[a].priority # None /\ addr[a].priority # 0
            THEN (3 - addr[a].priority) * 15000
            ELSE 22500
        bottle_efficiency == Max(0, 10000 - addr[a].bottles * 125)
        cluster_bonus == _calculate_cluster_bonus(a, feasible, remaining_capacity)
    IN  64 * distance_score + 56 * priority_score
          + 24 * bottle_efficiency + 16 * cluster_bonus

\* total_score of one feasible candidate
total_score(a, location, feasible, remaining_capacity) ==
    LET distance == _calculate_distance(location[1], location[2],
                                        OrZero(addr[a].lat), OrZero(addr[a].lon))
        distance_score == Min(distance, 100000)
        priority_score ==
            IF addr[a].priority # None /\ addr[a].priority # 0
            THEN (addr[a].priority - 1) * 15000
            ELSE 22500
        bottle_efficiency == Max(0, 10000 - addr[a].bottles * 125)
        cluster_bonus == _calculate_cluster_bonus(a, feasible, remaining_capacity)
    IN  64 * distance_score + 56 * priority_score
          + 24 * bottle_efficiency + 16 * cluster_bonus

\* faulty variant of BestOf: `<=` in the comparison, so that the last of
\* several candidates of the least score wins
RECURSIVE BestOfLastWins(_, _, _, _, _, _)
BestOfLastWins(i, best_address, best_score, location, feasible, remaining_capacity) ==
    IF i > Len(feasible) THEN best_address
    ELSE LET score == total_score(feasible[i], location, feasible,
                                  remaining_capacity)
         IN  IF best_address = NoAddress \/ score <= best_score
             THEN BestOfLastWins(i + 1, feasible[i], score,
                                 location, feasible, remaining_capacity)
             ELSE BestOfLastWins(i + 1, best_address, best_score,
                                 location, feasible, remaining_capacity)

\* the selection loop from candidate i on: a candidate replaces the best one
\* when its score is strictly below the best score so far
RECURSIVE BestOf(_, _, _, _, _, _)
BestOf(i, best_address, best_score, location, feasible, remaining_capacity) ==
    IF i > Len(feasible) THEN best_address
    ELSE LET score == total_score(feasible[i], location, feasible,
                                  remaining_capacity)
         IN  IF best_address = NoAddress \/ score < best_score
             THEN BestOf(i + 1, feasible[i], score,
                         location, feasible, remaining_capacity)
             ELSE BestOf(i + 1, best_address, best_score,
                         location, feasible, remaining_capacity)

\* faulty variant of _find_next_best_address: only the head of the pool is
\* looked at, so that a stop that does not fit hides the stops behind it
HeadIfFits(location, candidates, remaining_capacity) ==
    IF candidates # <<>> /\ Fits(candidates[1], remaining_capacity)
    THEN candidates[1]
    ELSE NoAddress

\* RouteOptimizer._find_next_best_address
_find_next_best_address(location, candidates, remaining_capacity) ==
    LET feasible == SelectSeq(candidates, LAMBDA a : Fits(a, remaining_capacity))
    IN  IF feasible = <<>> THEN NoAddress
        ELSE IF Len(feasible) = 1 THEN feasible[1]
        ELSE BestOf(1, NoAddress, 0, location, feasible, remaining_capacity)

(***************************************************************************)
(* Tour statistics.                                                        *)
(***************************************************************************)
\* the leg from stop i of s to stop i + 1
Leg(s, i) == DistanceBetween(s[i], s[i + 1])

\* faulty variant of _calculate_tour_distance: the leg back to the depot is
\* left out
TourDistanceOneWay(s) ==
    IF s = <<>> THEN 0
    ELSE _calculate_distance(HQ_LAT, HQ_LON,
                             OrZero(addr[s[1]].lat), OrZero(addr[s[1]].lon))
         + SumSeq([i \in 1..(Len(s) - 1) |-> Leg(s, i)])

\* RouteOptimizer._calculate_tour_distance, in metres
_calculate_tour_distance(s) ==
    IF s = <<>> THEN 0
    ELSE _calculate_distance(HQ_LAT, HQ_LON,
                             OrZero(addr[s[1]].lat), OrZero(addr[s[1]].lon))
         + SumSeq([i \in 1..(Len(s) - 1) |-> Leg(s, i)])
         + _calculate_distance(OrZero(addr[s[Len(s)]].lat),
                               OrZero(addr[s[Len(s)]].lon), HQ_LAT, HQ_LON)

\* faulty variant of _calculate_tour_time: the travel time alone
TourTimeWithoutService(distance, num_stops) ==
    (distance * 60) \div (AVERAGE_SPEED_KMH * 1000)

\* RouteOptimizer._calculate_tour_time, in minutes, of a distance in metres
_calculate_tour_time(distance, num_stops) ==
    (distance * 60 + num_stops * 5 * AVERAGE_SPEED_KMH * 1000)
        \div (AVERAGE_SPEED_KMH * 1000)

\* round(km, 2) of a distance in metres, in hundredths of a kilometre
Round2(distance) == (distance + 5) \div 10

(***************************************************************************)
(* Objects.                                                                *)
(***************************************************************************)
\* an Address as the address manager creates it: no assignment yet
NewAddress(i, bottles, priority, point) ==
    [id |-> ToString(i), bottles |-> bottles, priority |-> priority,
     lat |-> point[1], lon |-> point[2],
     tour_number |-> None, stop_order |-> None, optimized |-> FALSE]

\* Tour(...)
Tour(id, stops, total_bottles, total_distance, estimated_time, hq_returns) ==
    [id |-> id, addresses |-> stops, total_bottles |-> total_bottles,
     total_distance |-> total_distance, estimated_time |-> estimated_time,
     hq_returns |-> hq_returns]

\* the Address built by _create_hq_refill_stop
hq_address(id) ==
    [id |-> HQ_REFILL_ID, bottles |-> 0, priority |-> None,
     lat |-> HQ_LAT, lon |-> HQ_LON,
     tour_number |-> id, stop_order |-> 1, optimized |-> TRUE]

\* faulty variant of _create_hq_refill_stop: the refill timed as a delivery
\* stop
RefillTimedAsStop(id, ref) ==
    [id |-> id, addresses |-> <<ref>>, total_bottles |-> 0,
     total_distance |-> 0, estimated_time |-> _calculate_tour_time(0, 1),
     hq_returns |-> 1]

\* faulty variant of _create_hq_refill_stop: the refill tour takes the id
\* that follows the id of the tour before it
RefillOwnId(id, ref) == Tour(id + 1, <<ref>>, 0, 0, REFILL_MINUTES, 1)

\* the Tour returned by _create_hq_refill_stop; ref is the new Address
_create_hq_refill_stop(id, ref) == Tour(id, <<ref>>, 0, 0, REFILL_MINUTES, 1)

\* a fresh reference of the heap
NewRef == Len(addr) + 1

(***************************************************************************)
(* Initial states: the caller's list of stops.                             *)
(***************************************************************************)
InitLocals ==
    /\ pc = "call"
    /\ remaining_addresses = <<>>
    /\ tours = <<>>
    /\ tour_id = 1
    /\ tour_addresses = <<>>
    /\ current_bottles = 0
    /\ current_location = PHq
    /\ returned = <<>>

\* any pool of at most MaxStops stops
InitPool ==
    \E n \in 0..MaxStops :
      \E b \in [1..n -> BottleValues], p \in [1..n -> Priorities],
         q \in [1..n -> Points] :
        /\ addr = [i \in 1..n |-> NewAddress(i, b[i], p[i], q[i])]
        /\ addresses = [i \in 1..n |-> i]

\* test_scenario_1: 30 stops of 5 bottles; the first `cut` stops share one
\* priority and position, the others another
InitScenario1 ==
    \E cut \in ScenarioCuts, pa, pb \in ScenarioPriorities,
       qa, qb \in ScenarioPoints :
        /\ addr = [i \in 1..SCENARIO1_STOPS |->
                     IF i <= cut THEN NewAddress(i, SCENARIO1_BOTTLES, pa, qa)
                     ELSE NewAddress(i, SCENARIO1_BOTTLES, pb, qb)]
        /\ addresses = [i \in 1..SCENARIO1_STOPS |-> i]

\* three stops of one demand, of any priority, near the depot or far
InitRanking ==
    \E b \in RankingBottles, p \in [1..3 -> AllPriorities],
       q \in [1..3 -> RankingPoints] :
        /\ addr = [i \in 1..3 |-> NewAddress(i, b, p[i], q[i])]
        /\ addresses = [i \in 1..3 |-> i]

\* stops of one demand at the places of a layout
InitCluster ==
    \E layout \in ClusterLayouts, b \in ClusterBottles :
      \E p \in [1..Len(layout) -> ClusterPriorities] :
        /\ addr = [i \in 1..Len(layout) |-> NewAddress(i, b, p[i], layout[i])]
        /\ addresses = [i \in 1..Len(layout) |-> i]

\* one stop without demand at the coordinates of the depot
InitDepotStop ==
    \E p \in AllPriorities :
        /\ addr = [i \in 1..1 |-> NewAddress(i, 0, p, PHq)]
        /\ addresses = <<1>>

\* one or two stops, each on the prime meridian or without a position
InitMeridian ==
    \E n \in 1..2, b \in MeridianBottles :
      \E q \in [1..n -> MeridianPoints] :
        /\ addr = [i \in 1..n |-> NewAddress(i, b, None, q[i])]
        /\ addresses = [i \in 1..n |-> i]

\* no call of the utils optimizer and no upload is under way
RouteIdle ==
    /\ locations = <<>>
    /\ force_return_to_hq = FALSE
    /\ route_pc = "idle"
    /\ tour_stops = <<>>
    /\ remaining_customers = <<>>
    /\ route_location = <<>>
    /\ route_distance = 0
    /\ route_tours = <<>>

UploadIdle ==
    /\ rows = <<>>
    /\ row_index = 0
    /\ extracted = <<>>

\* a call of optimize_routes on the stored stops, all of them geocoded
InitCall ==
    /\ InitLocals
    /\ (InitPool \/ InitScenario1 \/ InitRanking \/ InitCluster
          \/ InitDepotStop \/ InitMeridian)
    /\ store = addresses
    /\ handler_addresses = addresses
    /\ addresses_to_geocode = <<>>

\* a POST /optimize request arrives: the store holds stops, geocoded or not
InitRequest ==
    /\ pc = "request"
    /\ \E n \in 0..MaxStored, b \in StoredBottles :
         \E q \in [1..n -> StoredPoints] :
           /\ addr = [i \in 1..n |-> NewAddress(i, b, None, q[i])]
           /\ store = [i \in 1..n |-> i]
    /\ addresses = <<>>
    /\ handler_addresses = <<>>
    /\ addresses_to_geocode = <<>>
    /\ remaining_addresses = <<>>
    /\ tours = <<>>
    /\ tour_id = 1
    /\ tour_addresses = <<>>
    /\ current_bottles = 0
    /\ current_location = PHq
    /\ returned = <<>>

\* no call of the engine and no /optimize request is under way
EngineIdle ==
    /\ pc = "idle"
    /\ addr = <<>>
    /\ addresses = <<>>
    /\ remaining_addresses = <<>>
    /\ tours = <<>>
    /\ tour_id = 1
    /\ tour_addresses = <<>>
    /\ current_bottles = 0
    /\ current_location = PHq
    /\ returned = <<>>
    /\ store = <<>>
    /\ handler_addresses = <<>>
    /\ addresses_to_geocode = <<>>

Init == (InitCall \/ InitRequest) /\ RouteIdle /\ UploadIdle

(***************************************************************************)
(* optimize_routes.                                                        *)
(***************************************************************************)
\* `if not addresses: return []`
ReturnEmpty ==
    /\ pc = "call"
    /\ addresses = <<>>
    /\ tours' = <<>>
    /\ pc' = "done"
    /\ UNCHANGED <<handler_vars, route_vars, upload_vars, returned,
                   addr, addresses, remaining_addresses, tour_id,
                   tour_addresses, current_bottles, current_location>>

\* faulty variant of SortAndCopy: addresses.sort(key=sort_key) on the
\* caller's list in the place of sorted(...)
SortInPlace ==
    /\ pc = "call"
    /\ addresses # <<>>
    /\ addresses' = _sort_addresses_by_priority_and_distance(addresses)
    /\ remaining_addresses' = _sort_addresses_by_priority_and_distance(addresses)
    /\ tours' = <<>>
    /\ tour_id' = 1
    /\ pc' = "while"
    /\ UNCHANGED <<handler_vars, route_vars, upload_vars, returned,
                   addr, tour_addresses, current_bottles,
                   current_location>>

\* the sort, the copy and the initialisation of tours and tour_id
SortAndCopy ==
    /\ pc = "call"
    /\ addresses # <<>>
    /\ remaining_addresses' = _sort_addresses_by_priority_and_distance(addresses)
    /\ tours' = <<>>
    /\ tour_id' = 1
    /\ pc' = "while"
    /\ UNCHANGED <<handler_vars, route_vars, upload_vars, returned,
                   addr, addresses, tour_addresses, current_bottles,
                   current_location>>

\* `while remaining_addresses:` is false: return tours
ReturnTours ==
    /\ pc = "while"
    /\ remaining_addresses = <<>>
    /\ pc' = "done"
    /\ UNCHANGED <<handler_vars, route_vars, upload_vars, returned,
                   addr, addresses, remaining_addresses, tours, tour_id,
                   tour_addresses, current_bottles, current_location>>

\* `while remaining_addresses:` is true: call _create_single_tour
EnterCreateSingleTour ==
    /\ pc = "while"
    /\ remaining_addresses # <<>>
    /\ tour_addresses' = <<>>
    /\ current_bottles' = 0
    /\ current_location' = PHq
    /\ pc' = "build"
    /\ UNCHANGED <<handler_vars, route_vars, upload_vars, returned,
                   addr, addresses, remaining_addresses, tours,
                   tour_id>>

(***************************************************************************)
(* _create_single_tour.                                                    *)
(***************************************************************************)
\* the candidate of this iteration, NoAddress when the loop ends
next_address ==
    IF remaining_addresses # <<>> /\ current_bottles < MAX_BOTTLES_PER_TRIP
    THEN _find_next_best_address(current_location, remaining_addresses,
                                 MAX_BOTTLES_PER_TRIP - current_bottles)
    ELSE NoAddress

\* faulty variant of NextStopOrder: a 0-based order
StopOrderZeroBased(s) == Len(s)

\* stop_order of the stop placed behind the stops s
NextStopOrder(s) == Len(s) + 1

\* one iteration of the loop: place next_address
PlaceStop ==
    /\ pc = "build"
    /\ LET chosen == next_address
       IN  /\ chosen # NoAddress
           /\ addr' = [addr EXCEPT ![chosen] =
                         [@ EXCEPT !.tour_number = tour_id,
                                   !.stop_order = NextStopOrder(tour_addresses),
                                   !.optimized = TRUE]]
           /\ tour_addresses' = Append(tour_addresses, chosen)
           /\ current_bottles' = current_bottles + addr[chosen].bottles
           /\ current_location' = <<addr[chosen].lat, addr[chosen].lon>>
           /\ remaining_addresses' = Remove(remaining_addresses, chosen)
    /\ UNCHANGED <<handler_vars, route_vars, upload_vars, returned,
                   addresses, pc, tours, tour_id>>

\* the loop is over: the statistics, the Tour, and tours.append(tour)
ReturnSingleTour ==
    /\ pc = "build"
    /\ next_address = NoAddress
    /\ LET total_distance == _calculate_tour_distance(tour_addresses)
           estimated_time == _calculate_tour_time(total_distance,
                                                  Len(tour_addresses))
           hq_returns == IF current_bottles > 0 THEN 1 ELSE 0
       IN  tours' = Append(tours,
                       Tour(tour_id, tour_addresses, current_bottles,
                            Round2(total_distance), estimated_time, hq_returns))
    /\ pc' = "appended"
    /\ UNCHANGED <<handler_vars, route_vars, upload_vars, returned,
                   addr, addresses, remaining_addresses, tour_id,
                   tour_addresses, current_bottles, current_location>>

(***************************************************************************)
(* optimize_routes, after tours.append(tour).                              *)
(***************************************************************************)
\* faulty variants of BreakNoProgress: `continue` in the place of `break`,
\* and the check left out, so that the refill and the next tour follow
ContinueNoProgress ==
    /\ pc = "appended"
    /\ tours[Len(tours)].addresses = <<>>
    /\ pc' = "while"
    /\ UNCHANGED <<handler_vars, route_vars, upload_vars, returned,
                   addr, addresses, remaining_addresses, tours, tour_id,
                   tour_addresses, current_bottles, current_location>>

FallThroughNoProgress ==
    /\ pc = "appended"
    /\ tours[Len(tours)].addresses = <<>>
    /\ addr' = Append(addr, hq_address(tour_id))
    /\ tours' = Append(tours, [id |-> tour_id, addresses |-> <<Len(addr) + 1>>,
                               total_bottles |-> 0, total_distance |-> 0,
                               estimated_time |-> REFILL_MINUTES,
                               hq_returns |-> 1])
    /\ tour_id' = tour_id + 1
    /\ pc' = "while"
    /\ UNCHANGED <<handler_vars, route_vars, upload_vars, returned,
                   addresses, remaining_addresses, tour_addresses,
                   current_bottles, current_location>>

\* `if not tour.addresses: break`
BreakNoProgress ==
    /\ pc = "appended"
    /\ tours[Len(tours)].addresses = <<>>
    /\ pc' = "done"
    /\ UNCHANGED <<handler_vars, route_vars, upload_vars, returned,
                   addr, addresses, remaining_addresses, tours, tour_id,
                   tour_addresses, current_bottles, current_location>>

\* faulty variants of NeedsRefill: a refill after every tour, and none
RefillAlways(pool) == TRUE

RefillNever(pool) == FALSE

\* `if remaining_addresses:` of the refill
NeedsRefill(pool) == pool # <<>>

\* the refill tour is appended, tour_id += 1
InsertRefill ==
    /\ pc = "appended"
    /\ tours[Len(tours)].addresses # <<>>
    /\ NeedsRefill(remaining_addresses)
    /\ addr' = Append(addr, hq_address(tour_id))
    /\ tours' = Append(tours, _create_hq_refill_stop(tour_id, NewRef))
    /\ tour_id' = tour_id + 1
    /\ pc' = "while"
    /\ UNCHANGED <<handler_vars, route_vars, upload_vars, returned,
                   addresses, remaining_addresses, tour_addresses,
                   current_bottles, current_location>>

\* no refill, tour_id += 1
NextTour ==
    /\ pc = "appended"
    /\ tours[Len(tours)].addresses # <<>>
    /\ ~NeedsRefill(remaining_addresses)
    /\ tour_id' = tour_id + 1
    /\ pc' = "while"
    /\ UNCHANGED <<handler_vars, route_vars, upload_vars, returned,
                   addr, addresses, remaining_addresses, tours,
                   tour_addresses, current_bottles, current_location>>

(***************************************************************************)
(* A further optimization request on the stored stops (api/routes.py).     *)
(***************************************************************************)
\* AddressManager.get_all_addresses: a new list that holds the stored
\* Address objects themselves, in the order of the store
get_all_addresses == [i \in 1..Len(store) |-> store[i]]

\* `[addr for addr in addresses if addr.lat and addr.lon]`
geocoded_addresses ==
    SelectSeq(get_all_addresses,
              LAMBDA a : ~Falsy(addr[a].lat) /\ ~Falsy(addr[a].lon))

\* what a call returns to its caller: the tours, and the fields of their
\* stops as they are at the return
Response(ts) ==
    [k \in 1..Len(ts) |->
        [tour |-> ts[k],
         stops |-> [i \in 1..Len(ts[k].addresses) |-> addr[ts[k].addresses[i]]]]]

\* the stops of a list that have a latitude and a longitude
Geocoded(list) ==
    SelectSeq(list, LAMBDA a : ~Falsy(addr[a].lat) /\ ~Falsy(addr[a].lon))

\* `[addr for addr in self.addresses.values() if not addr.lat]`
Ungeocoded(list) == SelectSeq(list, LAMBDA a : Falsy(addr[a].lat))

\* `if not addresses: raise HTTPException(400)`
RejectNoAddresses ==
    /\ pc = "request"
    /\ get_all_addresses = <<>>
    /\ handler_addresses' = get_all_addresses
    /\ pc' = "rejected"
    /\ UNCHANGED <<store, addresses_to_geocode, route_vars, upload_vars,
                   addr, addresses, remaining_addresses, tours, tour_id,
                   tour_addresses, current_bottles, current_location,
                   returned>>

\* every stored stop has a latitude: the handler awaits nothing, filters
\* its list and calls the engine
OptimizeStored ==
    /\ pc = "request"
    /\ get_all_addresses # <<>>
    /\ Ungeocoded(get_all_addresses) = <<>>
    /\ handler_addresses' = get_all_addresses
    /\ IF Geocoded(get_all_addresses) = <<>>
       THEN pc' = "rejected" /\ UNCHANGED addresses
       ELSE pc' = "call" /\ addresses' = Geocoded(get_all_addresses)
    /\ UNCHANGED <<store, addresses_to_geocode, route_vars, upload_vars,
                   addr, remaining_addresses, tours, tour_id,
                   tour_addresses, current_bottles, current_location,
                   returned>>

\* a stored stop has no latitude: geocode_addresses collects the stops to
\* geocode and awaits the geocoding of the first one
StartGeocoding ==
    /\ pc = "request"
    /\ get_all_addresses # <<>>
    /\ Ungeocoded(get_all_addresses) # <<>>
    /\ handler_addresses' = get_all_addresses
    /\ addresses_to_geocode' = Ungeocoded(store)
    /\ pc' = "geocoding"
    /\ UNCHANGED <<store, route_vars, upload_vars,
                   addr, addresses, remaining_addresses, tours, tour_id,
                   tour_addresses, current_bottles, current_location,
                   returned>>

\* the awaited geocoding returns coordinates: they are written to the
\* stop; the loop awaits the next stop or, after the last one, the handler
\* goes on without a further await
GeocodeOne ==
    /\ pc = "geocoding"
    /\ addresses_to_geocode # <<>>
    /\ \E coords \in GeocodedPoints :
          LET address == Head(addresses_to_geocode)
              written == [addr EXCEPT ![address] =
                            [@ EXCEPT !.lat = coords[1], !.lon = coords[2]]]
              geocoded == SelectSeq(handler_addresses,
                             LAMBDA a : ~Falsy(written[a].lat)
                                          /\ ~Falsy(written[a].lon))
          IN  /\ addr' = written
              /\ addresses_to_geocode' = Tail(addresses_to_geocode)
              /\ IF Tail(addresses_to_geocode) # <<>>
                 THEN UNCHANGED <<pc, addresses>>
                 ELSE IF geocoded = <<>>
                      THEN pc' = "rejected" /\ UNCHANGED addresses
                      ELSE pc' = "call" /\ addresses' = geocoded
    /\ UNCHANGED <<store, handler_addresses, route_vars, upload_vars,
                   remaining_addresses, tours, tour_id,
                   tour_addresses, current_bottles, current_location,
                   returned>>

\* DELETE /addresses/{address_id}, served while the /optimize request
\* awaits the geocoding service: remove_address pops the stop
DeleteAddress ==
    /\ pc = "geocoding"
    /\ addresses_to_geocode # <<>>
    /\ \E a \in Range(store) : store' = Remove(store, a)
    /\ UNCHANGED <<handler_addresses, addresses_to_geocode, route_vars,
                   upload_vars, engine_vars>>

\* the handler of POST /optimize after an earlier call has returned, with
\* the store as that call found it and nothing to geocode: the engine is
\* called on the stored stops; the locals of the call are new
NextRequest ==
    /\ pc = "done"
    /\ Len(returned) + 1 < MaxCalls
    /\ Len(addresses) <= MaxRepeatStops
    /\ get_all_addresses # <<>>
    /\ Ungeocoded(get_all_addresses) = <<>>
    /\ geocoded_addresses # <<>>
    /\ geocoded_addresses = addresses
    /\ returned' = Append(returned, Response(tours))
    /\ addresses' = geocoded_addresses
    /\ pc' = "call"
    /\ remaining_addresses' = <<>>
    /\ tours' = <<>>
    /\ tour_id' = 1
    /\ tour_addresses' = <<>>
    /\ current_bottles' = 0
    /\ current_location' = PHq
    /\ UNCHANGED <<addr, handler_vars, route_vars, upload_vars>>

Next ==
    \/ ReturnEmpty
    \/ SortAndCopy
    \/ ReturnTours
    \/ EnterCreateSingleTour
    \/ PlaceStop
    \/ ReturnSingleTour
    \/ BreakNoProgress
    \/ InsertRefill
    \/ NextTour
    \/ NextRequest
    \/ RejectNoAddresses
    \/ OptimizeStored
    \/ StartGeocoding
    \/ GeocodeOne
    \/ DeleteAddress

Spec == Init /\ [][Next]_vars

(***************************************************************************)
(* The nearest-neighbour optimizer of utils/route_optimizer.py and the     *)
(* request of POST /optimize-route (main.py).                              *)
(***************************************************************************)
\* positions of the locations of a request
RoutePoints == {PNear, PFar, PHq}

\* a Location; sequence is None until the tour is numbered
Location(kundennummer, point, is_depot) ==
    [kundennummer |-> kundennummer, lat |-> point[1], lon |-> point[2],
     priority |-> None, bottles |-> 0, is_depot |-> is_depot,
     sequence |-> None]

\* RouteOptimizer.hq_location
hq_location ==
    [kundennummer |-> "HQ", lat |-> HQ_LAT, lon |-> HQ_LON,
     priority |-> 0, bottles |-> 0, is_depot |-> TRUE, sequence |-> None]

\* RouteOptimizationRequest.force_return_to_hq: the field of the request
\* body, which may leave it out
RequestForce(given) == IF given = "absent" THEN FALSE ELSE given = "true"

\* a request with at most MaxStops locations
InitRoute ==
    /\ \E n \in 0..MaxStops :
         \E q \in [1..n -> RoutePoints], d \in [1..n -> BOOLEAN] :
            locations = [i \in 1..n |-> Location(ToString(i), q[i], d[i])]
    /\ \E given \in {"absent", "true", "false"} :
            force_return_to_hq = RequestForce(given)
    /\ route_pc = "call"
    /\ tour_stops = <<>>
    /\ remaining_customers = <<>>
    /\ route_location = <<>>
    /\ route_distance = 0
    /\ route_tours = <<>>

\* RouteOptimizer._haversine_distance between two Locations, in metres
_haversine_distance(a, b) == Haversine(a.lat, a.lon, b.lat, b.lon)

\* `[loc for loc in locations if not loc.is_depot]`
customer_locations == SelectSeq(locations, LAMBDA loc : ~loc.is_depot)

\* Tour(...) of utils/route_optimizer.py
RouteTour(stops, bottles, distance, time) ==
    [stops |-> stops, total_bottles |-> bottles, total_distance |-> distance,
     total_time |-> time]

\* `if not locations: return []`
RouteReturnEmpty ==
    /\ route_pc = "call"
    /\ locations = <<>>
    /\ route_tours' = <<>>
    /\ route_pc' = "done"
    /\ UNCHANGED <<locations, force_return_to_hq, tour_stops,
                   remaining_customers, route_location, route_distance>>
    /\ UNCHANGED <<engine_vars, handler_vars, upload_vars>>

\* `if not customer_locations:` the tour of the HQ alone
RouteOnlyHq ==
    /\ route_pc = "call"
    /\ locations # <<>>
    /\ customer_locations = <<>>
    /\ route_tours' = <<RouteTour(<<hq_location>>, 0, 0, 0)>>
    /\ route_pc' = "done"
    /\ UNCHANGED <<locations, force_return_to_hq, tour_stops,
                   remaining_customers, route_location, route_distance>>
    /\ UNCHANGED <<engine_vars, handler_vars, upload_vars>>

\* the tour starts with the HQ
RouteStart ==
    /\ route_pc = "call"
    /\ customer_locations # <<>>
    /\ tour_stops' = <<hq_location>>
    /\ remaining_customers' = customer_locations
    /\ route_distance' = 0
    /\ route_location' = hq_location
    /\ route_pc' = "while"
    /\ UNCHANGED <<locations, force_return_to_hq, route_tours>>
    /\ UNCHANGED <<engine_vars, handler_vars, upload_vars>>

\* the index of the first customer at the least distance: `distance <
\* min_distance` keeps the first of several
closest_customer ==
    CHOOSE i \in 1..Len(remaining_customers) :
        /\ \A j \in 1..Len(remaining_customers) :
              _haversine_distance(route_location, remaining_customers[i])
                <= _haversine_distance(route_location, remaining_customers[j])
        /\ \A j \in 1..(i - 1) :
              _haversine_distance(route_location, remaining_customers[j])
                > _haversine_distance(route_location, remaining_customers[i])

\* one iteration of `while remaining_customers:`
RouteVisitClosest ==
    /\ route_pc = "while"
    /\ remaining_customers # <<>>
    /\ LET customer == remaining_customers[closest_customer]
       IN  /\ tour_stops' = Append(tour_stops, customer)
           /\ route_distance' = route_distance
                 + _haversine_distance(route_location, customer)
           /\ route_location' = customer
           /\ remaining_customers' = Remove(remaining_customers, customer)
    /\ UNCHANGED <<locations, force_return_to_hq, route_pc, route_tours>>
    /\ UNCHANGED <<engine_vars, handler_vars, upload_vars>>

\* the loop is over: the return to the HQ when force_return_to_hq is set,
\* the sequence numbers, the totals and the Tour
RouteFinish ==
    /\ route_pc = "while"
    /\ remaining_customers = <<>>
    /\ LET back == force_return_to_hq
                     /\ tour_stops[Len(tour_stops)] # hq_location
           stops == IF back THEN Append(tour_stops, hq_location)
                    ELSE tour_stops
           distance == IF back
                       THEN route_distance
                              + _haversine_distance(route_location, hq_location)
                       ELSE route_distance
           tour_stops_with_sequence ==
               [i \in 1..Len(stops) |-> [stops[i] EXCEPT !.sequence = i]]
           total_time == (distance * 60) \div (50 * 1000)
           total_bottles ==
               SumSeq([i \in 1..Len(customer_locations) |->
                          customer_locations[i].bottles])
       IN  /\ tour_stops' = stops
           /\ route_distance' = distance
           /\ route_tours' = <<RouteTour(tour_stops_with_sequence,
                                         total_bottles, Round2(distance),
                                         total_time)>>
    /\ route_pc' = "done"
    /\ UNCHANGED <<locations, force_return_to_hq, remaining_customers,
                   route_location>>
    /\ UNCHANGED <<engine_vars, handler_vars, upload_vars>>

NextRoute ==
    \/ RouteReturnEmpty
    \/ RouteOnlyHq
    \/ RouteStart
    \/ RouteVisitClosest
    \/ RouteFinish

InitRouteRequest == EngineIdle /\ InitRoute /\ UploadIdle

SpecRoute == InitRouteRequest /\ [][NextRoute]_vars

(***************************************************************************)
(* The priority column of an uploaded file (services/file_processor.py).   *)
(***************************************************************************)
\* the rows of an upload that are drawn freely
MaxRows == 2

\* a cell of the priority column: a number (in tenths), a text, or empty
NumberCell(tenths) == [kind |-> "number", num |-> tenths, text |-> ""]
TextCell(text) == [kind |-> "text", num |-> 0, text |-> text]
NanCell == [kind |-> "nan", num |-> 0, text |-> ""]

\* numbers of the column: 0, 1, 2.7, 3 and 4
NumberCells == {NumberCell(n) : n \in {0, 10, 27, 30, 40}}
\* texts of the column, as typed
TextCells ==
    {TextCell(t) : t \in {"high", "High", "hoch", " Hoch ", "medium", "Mittel",
                          "low", "Low", "niedrig", "Standard", "3"}}
PriorityCells == NumberCells \cup TextCells \cup {NanCell}

\* the Priority column of generate_sample_file
SampleColumn ==
    <<TextCell("High"), TextCell("Medium"), TextCell("High"), TextCell("Low"),
      TextCell("Standard")>>

\* an upload: rows drawn freely, or the sample file
InitUpload ==
    /\ \/ \E n \in 0..MaxRows : rows \in [1..n -> PriorityCells]
       \/ rows = SampleColumn
    /\ row_index = 0
    /\ extracted = <<>>

\* float() raises ValueError
ValueError == -1

\* float(priority_val), in tenths: a number is itself, a text is parsed
FloatOf(cell) ==
    IF cell.kind = "number" THEN cell.num
    ELSE IF cell.text = "3" THEN 30
    ELSE ValueError

\* str(priority_val).lower().strip()
LowerStrip(text) ==
    CASE text \in {"high", "High"} -> "high"
      [] text \in {"hoch", " Hoch "} -> "hoch"
      [] text \in {"medium", "Medium"} -> "medium"
      [] text \in {"Mittel"} -> "mittel"
      [] text \in {"low", "Low"} -> "low"
      [] text \in {"niedrig"} -> "niedrig"
      [] text \in {"Standard"} -> "standard"
      [] text \in {"3"} -> "3"

\* priority_mapping: the value v stands for the member Priority(v)
priority_mapping ==
    [s \in {"low", "niedrig", "1", "medium", "mittel", "2", "high", "hoch", "3"}
       |-> CASE s \in {"low", "niedrig", "1"} -> 1
             [] s \in {"medium", "mittel", "2"} -> 2
             [] s \in {"high", "hoch", "3"} -> 3]

\* the priority _extract_address_data returns for a cell, which add_address
\* stores as it is
ExtractPriority(cell) ==
    IF cell.kind = "nan" THEN None
    ELSE IF FloatOf(cell) # ValueError
         THEN LET priority_int == FloatOf(cell) \div 10
              IN  IF priority_int \in {1, 2, 3} THEN priority_int ELSE None
         ELSE LET priority_str == LowerStrip(cell.text)
              IN  IF priority_str \in DOMAIN priority_mapping
                  THEN priority_mapping[priority_str]
                  ELSE None

\* one iteration of `for index, row in df.iterrows()`
ExtractRow ==
    /\ row_index < Len(rows)
    /\ extracted' = Append(extracted, ExtractPriority(rows[row_index + 1]))
    /\ row_index' = row_index + 1
    /\ UNCHANGED <<rows, engine_vars, handler_vars, route_vars>>

NextUpload == ExtractRow

InitUploadRequest == EngineIdle /\ RouteIdle /\ InitUpload

SpecUpload == InitUploadRequest /\ [][NextUpload]_vars

(***************************************************************************)
(* Vocabulary of the properties.                                           *)
(***************************************************************************)
Done == pc = "done"

\* the stops the caller passed in
InputStops == Range(addresses)

\* a tour that holds a depot placeholder
IsRefill(t) ==
    \E i \in 1..Len(t.addresses) : addr[t.addresses[i]].id = HQ_REFILL_ID

IsDelivery(t) == ~IsRefill(t)

DeliveryIndexes == {k \in 1..Len(tours) : IsDelivery(tours[k])}
RefillIndexes == {k \in 1..Len(tours) : IsRefill(tours[k])}

\* the sum of the bottles of the stops of a tour
LoadOf(t) == SumSeq([i \in 1..Len(t.addresses) |-> addr[t.addresses[i]].bottles])

\* how often stop a occurs in the delivery tours
Occurrences(a) ==
    Cardinality({<<k, i>> \in (1..Len(tours)) \X (1..Len(addr)) :
                     /\ IsDelivery(tours[k])
                     /\ i <= Len(tours[k].addresses)
                     /\ tours[k].addresses[i] = a})

\* the size of the pool after the first k tours of the list
PoolAfter(k) ==
    Len(addresses)
      - SumSeq([j \in 1..k |-> IF IsDelivery(tours[j])
                               THEN Len(tours[j].addresses) ELSE 0])

TotalDemand == SumSeq([i \in 1..Len(addresses) |-> addr[addresses[i]].bottles])

Feasible(a) == addr[a].bottles >= 0 /\ addr[a].bottles <= MAX_BOTTLES_PER_TRIP
Resolved(a) == ~Falsy(addr[a].lat) /\ ~Falsy(addr[a].lon)

\* a refill tour lies strictly between two delivery tours
RefillBetweenDeliveries ==
    \E k \in RefillIndexes :
        /\ \E j \in DeliveryIndexes : j < k
        /\ \E j \in DeliveryIndexes : j > k

\* the input is that of test_scenario_1
IsScenario1 ==
    /\ Len(addresses) = SCENARIO1_STOPS
    /\ \A a \in InputStops : addr[a].bottles = SCENARIO1_BOTTLES

(***************************************************************************)
(* C1.  Every delivery tour returned by optimize_routes reports as         *)
(* total_bottles the sum of the bottles of its stops, and that sum is at   *)
(* most MAX_BOTTLES_PER_TRIP.                                              *)
(***************************************************************************)
C1_CapacityInvariant ==
    Done => \A k \in DeliveryIndexes :
                /\ tours[k].total_bottles = LoadOf(tours[k])
                /\ LoadOf(tours[k]) <= MAX_BOTTLES_PER_TRIP

\* a returned tour of two stops that is filled to the brim, next to a stop
\* that had to wait for the second tour
C1_Witness ==
    /\ Done
    /\ \E k \in DeliveryIndexes :
          Len(tours[k].addresses) = 2 /\ LoadOf(tours[k]) = MAX_BOTTLES_PER_TRIP
    /\ Cardinality(DeliveryIndexes) = 2

(***************************************************************************)
(* C2.  When every input stop has a resolved position and a demand between *)
(* 0 and the capacity, then at the return every input stop occurs exactly  *)
(* once in the delivery tours and the pool is empty.                       *)
(***************************************************************************)
C2_Completeness ==
    (Done /\ \A a \in InputStops : Feasible(a) /\ Resolved(a))
        => /\ remaining_addresses = <<>>
           /\ \A a \in InputStops : Occurrences(a) = 1

\* three feasible stops spread over two tours
C2_Witness ==
    /\ Done
    /\ \A a \in InputStops : Feasible(a) /\ Resolved(a)
    /\ Len(addresses) = 3
    /\ Cardinality(DeliveryIndexes) = 2

(***************************************************************************)
(* C3.  optimize_routes terminates for every pool, pools with stops over   *)
(* the capacity included, and the number of _create_single_tour calls is   *)
(* at most the pool size plus the number of refill tours inserted.         *)
(***************************************************************************)
\* the calls of _create_single_tour made so far: one per delivery tour of
\* the list, and the one that is running
TourBuilderCalls ==
    Cardinality(DeliveryIndexes) + (IF pc = "build" THEN 1 ELSE 0)

CallsWithinBound ==
    TourBuilderCalls <= Len(addresses) + Cardinality(RefillIndexes)

\* a measure of the work left: the pool size counts most, then the place in
\* the loop; a tour that has placed a stop ranks above the next loop test
Rank ==
    CASE pc = "request" -> 8 * Len(store) + 6
      [] pc = "geocoding" ->
            6 * Len(handler_addresses) + 5
              + Len(addresses_to_geocode) + Len(store)
      [] pc = "rejected" -> 0
      [] pc = "call" -> 6 * Len(addresses) + 4
      [] pc = "while" -> 6 * Len(remaining_addresses) + 3
      [] pc = "build" ->
            6 * Len(remaining_addresses) + (IF tour_addresses = <<>> THEN 2 ELSE 5)
      [] pc = "appended" ->
            6 * Len(remaining_addresses)
              + (IF tours[Len(tours)].addresses = <<>> THEN 1 ELSE 4)
      [] pc = "done" -> 0

\* a call that has not returned has a step to take: at the entry the list
\* is empty or not, in the tour builder the loop either places a stop or
\* returns, and elsewhere one of the tests applies; a request that waits
\* for the geocoding has a stop to geocode
CanStep ==
    \/ pc = "request"
    \/ pc = "geocoding" /\ addresses_to_geocode # <<>>
    \/ pc = "call"
    \/ pc = "build"
    \/ ENABLED (ReturnTours \/ EnterCreateSingleTour \/ BreakNoProgress
                  \/ InsertRefill \/ NextTour)

\* termination by a variant: every step of a call lowers Rank, Rank is never
\* negative, and only a returned call or a rejected request has no step left
C3_Termination ==
    /\ [][pc # "done" => Rank' < Rank]_vars
    /\ [](Rank >= 0)
    /\ [](pc \notin {"done", "rejected"} => CanStep)
    /\ []CallsWithinBound

\* a returned call whose pool held a stop over the capacity and that made as
\* many calls as the bound allows
C3_Witness ==
    /\ Done
    /\ \E a \in InputStops : ~Feasible(a)
    /\ Cardinality(RefillIndexes) = 1
    /\ TourBuilderCalls = 2

(***************************************************************************)
(* C4.  In the returned list a refill tour follows a delivery tour at once *)
(* exactly when that tour placed a stop and left the pool non-empty; a     *)
(* refill tour stands nowhere else.                                        *)
(***************************************************************************)
C4_RefillExactlyWhenPoolLeft ==
    Done =>
      /\ \A k \in DeliveryIndexes :
            (k < Len(tours) /\ IsRefill(tours[k + 1]))
               <=> (tours[k].addresses # <<>> /\ PoolAfter(k) > 0)
      /\ \A k \in RefillIndexes : k > 1 /\ IsDelivery(tours[k - 1])

\* a returned list with a refill after the first tour and none after the
\* tour that emptied the pool
C4_Witness ==
    /\ Done
    /\ Len(tours) = 3
    /\ IsRefill(tours[2])
    /\ PoolAfter(1) > 0
    /\ PoolAfter(3) = 0

(***************************************************************************)
(* C5.  As claimed: for every pool whose total demand exceeds the          *)
(* capacity, the returned list holds a refill tour strictly between two    *)
(* delivery tours.  This fails for a pool of stops that all exceed the     *)
(* capacity.                                                               *)
(***************************************************************************)
C5_RefillForEveryLargePool ==
    (Done /\ TotalDemand > MAX_BOTTLES_PER_TRIP) => RefillBetweenDeliveries

(***************************************************************************)
(* C5, amended.  For every pool whose total demand exceeds the capacity    *)
(* and that holds at least one stop whose demand does not exceed it, the   *)
(* returned list holds a refill tour strictly between two delivery tours.  *)
(***************************************************************************)
C5_RefillForLargePool ==
    (Done /\ TotalDemand > MAX_BOTTLES_PER_TRIP
          /\ \E a \in InputStops : Feasible(a))
        => RefillBetweenDeliveries

\* a returned call on a pool that mixes a stop that fits with one over the
\* capacity: the refill stands between the tour and an empty tour
C5_Witness ==
    /\ Done
    /\ TotalDemand > MAX_BOTTLES_PER_TRIP
    /\ \E a \in InputStops : Feasible(a)
    /\ \E a \in InputStops : ~Feasible(a)
    /\ RefillBetweenDeliveries

(***************************************************************************)
(* C6.  For 30 stops of 5 bottles, whatever their positions and            *)
(* priorities, the returned list is a delivery tour of 16 stops and 80     *)
(* bottles, a refill tour, and a delivery tour of 14 stops and 70 bottles; *)
(* the total_bottles of the list add up to 150.                            *)
(***************************************************************************)
C6_Scenario1 ==
    (Done /\ IsScenario1) =>
        /\ Len(tours) = 3
        /\ IsDelivery(tours[1])
        /\ Len(tours[1].addresses) = 16
        /\ tours[1].total_bottles = 80
        /\ IsRefill(tours[2])
        /\ IsDelivery(tours[3])
        /\ Len(tours[3].addresses) = 14
        /\ tours[3].total_bottles = 70
        /\ SumSeq([k \in 1..Len(tours) |-> tours[k].total_bottles]) = 150

\* the scenario has returned, with stops of two priorities at two places
C6_Witness ==
    /\ Done
    /\ IsScenario1
    /\ Len(tours) = 3
    /\ \E a, b \in InputStops :
          /\ addr[a].priority # addr[b].priority
          /\ addr[a].lat # addr[b].lat

(***************************************************************************)
(* C7.  Every refill tour of the list consists of exactly one depot        *)
(* placeholder with zero bottles at the depot coordinates, and has         *)
(* total_bottles 0, total_distance 0 and estimated_time 15; no input stop  *)
(* is a member of a refill tour.                                           *)
(***************************************************************************)
C7_RefillTourShape ==
    \A k \in RefillIndexes :
        /\ Len(tours[k].addresses) = 1
        /\ addr[tours[k].addresses[1]].bottles = 0
        /\ addr[tours[k].addresses[1]].lat = HQ_LAT
        /\ addr[tours[k].addresses[1]].lon = HQ_LON
        /\ tours[k].total_bottles = 0
        /\ tours[k].total_distance = 0
        /\ tours[k].estimated_time = 15
        /\ tours[k].addresses[1] \notin InputStops

\* a returned list with two refill tours
C7_Witness == Done /\ Cardinality(RefillIndexes) = 2

(***************************************************************************)
(* C8.  Once the tour builder has returned a delivery tour without stops,  *)
(* that tour stays the last element of the list: no refill tour is         *)
(* appended behind it and the tour builder is not called again.            *)
(***************************************************************************)
C8_HaltOnEmptyTour ==
    \A k \in DeliveryIndexes :
        tours[k].addresses = <<>>
            => k = Len(tours) /\ pc \in {"appended", "done"}

\* the call has returned behind an empty tour that followed a tour and its
\* refill
C8_Witness ==
    /\ Done
    /\ Len(tours) = 3
    /\ tours[3].addresses = <<>>
    /\ remaining_addresses # <<>>

(***************************************************************************)
(* C9.  A stop whose demand exceeds the capacity is never selected: it is  *)
(* in no tour, it stays in the pool from the sort on, and its tour_number, *)
(* stop_order and optimized fields keep the values they had before the     *)
(* call.                                                                   *)
(***************************************************************************)
C9_OversizedNeverPlaced ==
    \A a \in InputStops :
        addr[a].bottles > MAX_BOTTLES_PER_TRIP
            => /\ \A k \in 1..Len(tours) : a \notin Range(tours[k].addresses)
               /\ a \notin Range(tour_addresses)
               /\ pc # "call" => a \in Range(remaining_addresses)
               /\ addr[a].tour_number = None
               /\ addr[a].stop_order = None
               /\ addr[a].optimized = FALSE

\* the call has returned, having placed the stops that fit and left the one
\* over the capacity in the pool
C9_Witness ==
    /\ Done
    /\ Len(addresses) = 3
    /\ Cardinality({a \in InputStops : addr[a].bottles > MAX_BOTTLES_PER_TRIP}) = 1
    /\ Cardinality({a \in InputStops : addr[a].optimized}) = 2

(***************************************************************************)
(* C10.  Every stop of a delivery tour has as tour_number the id of the    *)
(* tour and as stop_order its 1-based position in the tour's list.         *)
(***************************************************************************)
C10_OrderAnnotation ==
    \A k \in DeliveryIndexes :
        \A i \in 1..Len(tours[k].addresses) :
            /\ addr[tours[k].addresses[i]].tour_number = tours[k].id
            /\ addr[tours[k].addresses[i]].stop_order = i

\* a returned list with a tour of two stops, a refill, and a second tour
C10_Witness ==
    /\ Done
    /\ Len(tours) = 3
    /\ Len(tours[1].addresses) = 2
    /\ Len(tours[3].addresses) = 1

(***************************************************************************)
(* C11.  As claimed: Stop Ranking returns the input stops sorted ascending *)
(* by (priority weight, distance from the depot), the weight being 0 for   *)
(* HIGH, 1 for MEDIUM, 2 for LOW, and 3 for STANDARD, set explicitly or    *)
(* unset.  The code gives an explicit Priority.STANDARD the weight 2.      *)
(***************************************************************************)
\* the priority weight of the claim
ClaimedWeight(a) ==
    CASE addr[a].priority = HIGH -> 0
      [] addr[a].priority = MEDIUM -> 1
      [] addr[a].priority = LOW -> 2
      [] OTHER -> 3

ClaimedKey(a) == <<ClaimedWeight(a), sort_key(a)[2]>>

\* the sort has just returned
JustSorted == pc = "while" /\ tours = <<>>

C11_RankedByClaimedWeight ==
    JustSorted =>
        /\ Len(remaining_addresses) = Len(addresses)
        /\ Range(remaining_addresses) = Range(addresses)
        /\ \A i, j \in 1..Len(remaining_addresses) :
              i < j => ~TupleLess(ClaimedKey(remaining_addresses[j]),
                                  ClaimedKey(remaining_addresses[i]))

(***************************************************************************)
(* C12.  The Candidate Scorer returns none exactly when no candidate's     *)
(* demand fits the remaining capacity; otherwise it returns a candidate    *)
(* that fits and whose weighted sum 0.40 distance + 0.35 priority + 0.15   *)
(* efficiency + 0.10 clustering is the least among those that fit, and of  *)
(* several candidates of the least sum the first in pool order.            *)
(***************************************************************************)
\* the loop of the tour builder calls the scorer
ScorerCalled ==
    /\ pc = "build"
    /\ remaining_addresses # <<>>
    /\ current_bottles < MAX_BOTTLES_PER_TRIP

\* the capacity passed to the scorer, and the candidates that fit it
Capacity == MAX_BOTTLES_PER_TRIP - current_bottles

FittingPool ==
    SelectSeq(remaining_addresses, LAMBDA a : addr[a].bottles <= Capacity)

\* the weighted sum of the claim, times 100000: the four scores in
\* thousandths, the weights in hundredths
WeightedSum(a) ==
    LET km == _calculate_distance(current_location[1], current_location[2],
                                  OrZero(addr[a].lat), OrZero(addr[a].lon))
        distance == IF km > 100000 THEN 100000 ELSE km
        priority == CASE addr[a].priority = HIGH -> 0
                      [] addr[a].priority = MEDIUM -> 15000
                      [] addr[a].priority = LOW -> 30000
                      [] OTHER -> 22500
        efficiency == IF addr[a].bottles * 125 > 10000 THEN 0
                      ELSE 10000 - addr[a].bottles * 125
        clustering == _calculate_cluster_bonus(a, FittingPool, Capacity)
    IN  40 * distance + 35 * priority + 15 * efficiency + 10 * clustering

\* the place of a stop in the pool
PoolIndex(a) == CHOOSE i \in 1..Len(remaining_addresses) :
                    remaining_addresses[i] = a

C12_ScorerContract ==
    ScorerCalled =>
        LET best == _find_next_best_address(current_location,
                                            remaining_addresses, Capacity)
            fits == Range(FittingPool)
            sum == [a \in fits |-> WeightedSum(a)]
        IN  /\ (best = NoAddress) <=> (fits = {})
            /\ best # NoAddress =>
                  /\ best \in fits
                  /\ \A a \in fits : sum[best] <= sum[a]
                  /\ \A a \in fits :
                        sum[a] = sum[best] => PoolIndex(best) <= PoolIndex(a)

\* the scorer is called on a pool in which two candidates share the least
\* sum and a third one fits with a greater sum
C12_Witness ==
    /\ ScorerCalled
    /\ LET best == _find_next_best_address(current_location,
                                           remaining_addresses, Capacity)
           fits == Range(FittingPool)
       IN  /\ best # NoAddress
           /\ \E a \in fits : a # best /\ WeightedSum(a) = WeightedSum(best)
           /\ \E a \in fits : WeightedSum(a) > WeightedSum(best)

(***************************************************************************)
(* C13.  Of two stops equal in position and demand, one HIGH and the other *)
(* LOW or STANDARD (set or unset), the tour builder never places the       *)
(* LOW/STANDARD stop before the HIGH stop: whenever the LOW/STANDARD stop  *)
(* has been placed, the HIGH stop has been placed too.                     *)
(***************************************************************************)
\* two stops at one position with one demand
Twins(a, b) ==
    /\ a # b
    /\ addr[a].lat = addr[b].lat
    /\ addr[a].lon = addr[b].lon
    /\ addr[a].bottles = addr[b].bottles

\* the running call has placed stop a
Placed(a) ==
    \/ a \in Range(tour_addresses) /\ pc = "build"
    \/ \E k \in 1..Len(tours) : a \in Range(tours[k].addresses)

C13_HighNeverAfterLower ==
    \A a, b \in InputStops :
        (/\ Twins(a, b)
         /\ addr[a].priority = HIGH
         /\ addr[b].priority \in {LOW, STANDARD, None})
            => (Placed(b) => Placed(a))

\* the HIGH stop is in the tour and its LOW twin is a candidate that fits
C13_Witness ==
    /\ ScorerCalled
    /\ \E a, b \in InputStops :
          /\ Twins(a, b)
          /\ addr[a].priority = HIGH
          /\ addr[b].priority = LOW
          /\ Placed(a)
          /\ b \in Range(FittingPool)

(***************************************************************************)
(* C14.  As claimed: of two stops equal in position and demand that both   *)
(* fit, one LOW and one of unset priority, the LOW stop is placed before   *)
(* the unset one.  The scorer gives the unset stop the better priority     *)
(* score (22.5 against 30) and places it first.                            *)
(***************************************************************************)
C14_LowBeforeUnset ==
    \A a, b \in InputStops :
        (/\ Twins(a, b)
         /\ addr[a].priority = LOW
         /\ addr[b].priority = None)
            => (Placed(b) => Placed(a))

(***************************************************************************)
(* C15.  As claimed: when a target has more than 3 nearby candidates       *)
(* (other candidates that fit, within 10 km, whose demand fits the         *)
(* capacity left after the target), the clustering score is computed from  *)
(* the 3 of them nearest to the target, whatever their order in the pool.  *)
(* The code takes the first 3 in pool order.                               *)
(***************************************************************************)
\* the distances from the target to its nearby candidates, in pool order
NearbyDistances(target) ==
    LET nearby == SelectSeq(FittingPool,
                     LAMBDA c : /\ c # target
                                /\ DistanceBetween(target, c) <= 10000
                                /\ addr[c].bottles
                                     <= Capacity - addr[target].bottles)
    IN  [i \in 1..Len(nearby) |-> DistanceBetween(target, nearby[i])]

\* a number put into an ascending list, and the list sorted ascending
RECURSIVE InsertAscending(_, _)
InsertAscending(s, x) ==
    IF s = <<>> THEN <<x>>
    ELSE IF x < Head(s) THEN <<x>> \o s
         ELSE <<Head(s)>> \o InsertAscending(Tail(s), x)

RECURSIVE Ascending(_)
Ascending(s) ==
    IF s = <<>> THEN <<>> ELSE InsertAscending(Ascending(Tail(s)), Head(s))

\* the clustering score that the three least of the distances d give
ScoreOfNearest(d) ==
    LET nearest == SubSeq(Ascending(d), 1, 3)
        bonus == SumSeq([i \in 1..3 |-> IF nearest[i] < 5000
                                         THEN 5000 - nearest[i] ELSE 0])
    IN  IF bonus > 5000 THEN 0 ELSE 5000 - bonus

C15_ThreeNearest ==
    ScorerCalled =>
        \A target \in Range(FittingPool) :
            LET d == NearbyDistances(target)
            IN  Len(d) > 3 =>
                  _calculate_cluster_bonus(target, FittingPool, Capacity)
                      = ScoreOfNearest(d)

(***************************************************************************)
(* C16.  As claimed: of two targets that fit, one with no other fitting    *)
(* candidate within 10 km and one with a neighbour at less than 10 km      *)
(* whose demand fits the capacity left after the target, the second has    *)
(* the strictly lower clustering score.  In the code a neighbour at 5 km   *)
(* or more earns no bonus, and the two scores are equal.                   *)
(***************************************************************************)
\* no other candidate that fits lies within 10 km of the target
Isolated(target) ==
    \A c \in Range(FittingPool) :
        c # target => DistanceBetween(target, c) > 10000

\* a nearby candidate of the target lies at less than 10 km
Clustered(target) ==
    LET d == NearbyDistances(target)
    IN  \E i \in 1..Len(d) : d[i] < 10000

C16_ClusteredStrictlyLower ==
    ScorerCalled =>
        \A isolated, clustered \in Range(FittingPool) :
            (Isolated(isolated) /\ Clustered(clustered))
                => _calculate_cluster_bonus(clustered, FittingPool, Capacity)
                     < _calculate_cluster_bonus(isolated, FittingPool, Capacity)

(***************************************************************************)
(* C17.  No step changes the caller's list, nor the id, demand, priority   *)
(* or position of a stop of it; the only fields of a stop that a step      *)
(* changes are tour_number, stop_order and optimized, and only those of    *)
(* the stop the step places.                                               *)
(***************************************************************************)
\* the fields of a stop that are not assignment fields
DataOf(r) == <<r.id, r.bottles, r.priority, r.lat, r.lon>>

C17_FrameOfCall ==
    [][pc \notin {"request", "geocoding"} =>
       /\ addresses' = addresses
       /\ \A a \in InputStops :
             /\ DataOf(addr'[a]) = DataOf(addr[a])
             /\ addr'[a] # addr[a]
                   => /\ pc = "build"
                      /\ tour_addresses' = Append(tour_addresses, a)]_vars

\* the call has returned: the pool was given out of rank order, two of its
\* stops were placed and carry their assignment, and one is left unplaced
C17_Witness ==
    /\ Done
    /\ Len(addresses) = 3
    /\ addresses # _sort_addresses_by_priority_and_distance(addresses)
    /\ Cardinality({a \in InputStops : addr[a].optimized}) = 2
    /\ remaining_addresses # <<>>

(***************************************************************************)
(* C18.  As claimed: two requests share no mutable state.  The stop        *)
(* objects in the tours returned to an earlier request are disjoint from   *)
(* those the running request has placed, and the tours returned to the     *)
(* earlier request still read as they did at its return.  In the code both *)
(* requests work on the Address objects of the store.                      *)
(***************************************************************************)
\* the Address objects of the tours returned to an earlier request
ObjectsOf(response) ==
    UNION {Range(response[k].tour.addresses) : k \in 1..Len(response)}

\* the Address objects the running request has written
ObjectsWritten == {a \in 1..Len(addr) : Placed(a)}

\* the tours of an earlier request read as they did at its return
Unaltered(response) ==
    \A k \in 1..Len(response) :
        \A i \in 1..Len(response[k].stops) :
            addr[response[k].tour.addresses[i]] = response[k].stops[i]

C18_RequestsShareNoStops ==
    \A n \in 1..Len(returned) :
        /\ ObjectsOf(returned[n]) \cap ObjectsWritten = {}
        /\ Unaltered(returned[n])

(***************************************************************************)
(* C19.  A second call of optimize_routes on the same stops, which carry   *)
(* the assignment fields of the first call, returns the same sequence of   *)
(* tours: the same stops in the same order with the same fields, and the   *)
(* same ids and totals.                                                    *)
(***************************************************************************)
\* a returned tour without its object references
TotalsOf(t) == [t EXCEPT !.addresses = <<>>]

\* two returned lists agree: tour by tour the same totals and the same
\* stops, and in the delivery tours the same objects
SameTours(x, y) ==
    /\ Len(x) = Len(y)
    /\ \A k \in 1..Len(x) :
          /\ TotalsOf(x[k].tour) = TotalsOf(y[k].tour)
          /\ x[k].stops = y[k].stops
          /\ IsDelivery(x[k].tour) => x[k].tour.addresses = y[k].tour.addresses

C19_SecondCallSameTours ==
    (Done /\ returned # <<>>)
        => SameTours(Response(tours), returned[Len(returned)])

\* the second call has returned two delivery tours around a refill tour
C19_Witness ==
    /\ Done
    /\ returned # <<>>
    /\ Len(tours) = 3
    /\ Cardinality(DeliveryIndexes) = 2
    /\ \A a \in InputStops : Placed(a)

(***************************************************************************)
(* C20.  For one stop without demand at the exact coordinates of the depot *)
(* the returned list is one delivery tour that holds the stop, with        *)
(* total_distance 0 and estimated_time 5, and no refill tour.              *)
(***************************************************************************)
\* the input is one stop of 0 bottles at the depot
IsDepotStop ==
    /\ Len(addresses) = 1
    /\ addr[addresses[1]].bottles = 0
    /\ addr[addresses[1]].lat = HQ_LAT
    /\ addr[addresses[1]].lon = HQ_LON

C20_DepotStop ==
    (Done /\ IsDepotStop) =>
        /\ Len(tours) = 1
        /\ IsDelivery(tours[1])
        /\ tours[1].addresses = addresses
        /\ tours[1].total_distance = 0
        /\ tours[1].estimated_time = 5
        /\ RefillIndexes = {}

\* the call on the depot stop has returned its tour
C20_Witness ==
    /\ Done
    /\ IsDepotStop
    /\ Len(tours) = 1
    /\ addr[addresses[1]].optimized

(***************************************************************************)
(* C21.  As claimed: every tour returned by optimize_route of utils starts *)
(* at the Planegg HQ and ends at the Planegg HQ, for every non-empty input *)
(* and every value of force_return_to_hq.  With force_return_to_hq false,  *)
(* the default of the request of POST /optimize-route, the tour ends at    *)
(* the last customer.                                                      *)
(***************************************************************************)
\* a stop of a returned tour is the HQ
IsHq(stop) == stop.is_depot /\ stop.lat = HQ_LAT /\ stop.lon = HQ_LON

C21_StartsAndEndsAtHq ==
    (route_pc = "done" /\ locations # <<>>) =>
        \A k \in 1..Len(route_tours) :
            /\ route_tours[k].stops # <<>>
            /\ IsHq(route_tours[k].stops[1])
            /\ IsHq(route_tours[k].stops[Len(route_tours[k].stops)])

(***************************************************************************)
(* C22.  As claimed: every call of _create_single_tour leaves the pool     *)
(* strictly smaller than it found it, for every input pool, and            *)
(* optimize_routes makes at most as many calls as the pool has stops.      *)
(* This fails for a pool in which no stop fits: the call returns a tour    *)
(* without stops and the pool is as it was.                                *)
(***************************************************************************)
\* the size of the pool when the call that has just returned was made
PoolAtCall == PoolAfter(Len(tours) - 1)

C22_EveryCallShrinksPool ==
    /\ pc = "appended" => Len(remaining_addresses) < PoolAtCall
    /\ TourBuilderCalls <= Len(addresses)

(***************************************************************************)
(* C22, amended.  A call of _create_single_tour either leaves the pool     *)
(* strictly smaller than it found it, or returns a tour without stops and  *)
(* leaves the pool as it was; a tour without stops has no call before it   *)
(* that returned one too, so only the last call can fail to shrink the     *)
(* pool, and optimize_routes makes at most as many calls as the pool has   *)
(* stops.                                                                  *)
(***************************************************************************)
C22_CallShrinksPoolOrIsLast ==
    /\ pc = "appended" =>
          \/ Len(remaining_addresses) < PoolAtCall
          \/ /\ tours[Len(tours)].addresses = <<>>
             /\ Len(remaining_addresses) = PoolAtCall
    /\ \A k \in DeliveryIndexes : k < Len(tours) => tours[k].addresses # <<>>
    /\ TourBuilderCalls <= Len(addresses)

\* the second call has returned a tour without stops on a pool of two: it
\* made as many calls as the pool has stops and the last left the pool as
\* it was
C22_Witness ==
    /\ pc = "appended"
    /\ Len(addresses) = 2
    /\ TourBuilderCalls = 2
    /\ tours[Len(tours)].addresses = <<>>
    /\ Len(remaining_addresses) = PoolAtCall

(***************************************************************************)
(* C23.  When _create_single_tour has returned and the pool is not empty,  *)
(* the load of the returned tour equals MAX_BOTTLES_PER_TRIP or every stop *)
(* left in the pool has more bottles than the capacity the tour has left.  *)
(***************************************************************************)
C23_ClosedOnlyWhenNothingFits ==
    (pc = "appended" /\ remaining_addresses # <<>>) =>
        LET load == tours[Len(tours)].total_bottles
        IN  \/ load = MAX_BOTTLES_PER_TRIP
            \/ \A i \in 1..Len(remaining_addresses) :
                  addr[remaining_addresses[i]].bottles
                      > MAX_BOTTLES_PER_TRIP - load

\* a tour has been closed below the capacity with a stop in the pool that
\* would have fitted an empty vehicle
C23_Witness ==
    /\ pc = "appended"
    /\ remaining_addresses # <<>>
    /\ tours[Len(tours)].total_bottles > 0
    /\ tours[Len(tours)].total_bottles < MAX_BOTTLES_PER_TRIP
    /\ \E i \in 1..Len(remaining_addresses) :
          addr[remaining_addresses[i]].bottles <= MAX_BOTTLES_PER_TRIP

(***************************************************************************)
(* C24.  The list optimize_routes returns is empty for an empty input;     *)
(* for any other input it alternates delivery tour, refill tour, delivery  *)
(* tour, ..., and begins and ends with a delivery tour: no two refill      *)
(* tours are adjacent, the last tour is no refill tour, and there is one   *)
(* refill tour fewer than there are delivery tours.                        *)
(***************************************************************************)
C24_Alternation ==
    Done =>
        /\ addresses = <<>> => tours = <<>>
        /\ addresses # <<>> =>
              /\ tours # <<>>
              /\ \A k \in 1..Len(tours) :
                    IF k % 2 = 1 THEN IsDelivery(tours[k]) ELSE IsRefill(tours[k])
              /\ IsDelivery(tours[Len(tours)])
              /\ \A k \in 1..(Len(tours) - 1) :
                    ~(IsRefill(tours[k]) /\ IsRefill(tours[k + 1]))
              /\ Cardinality(RefillIndexes) = Cardinality(DeliveryIndexes) - 1

\* a returned list of three delivery tours with a refill tour between each
\* two of them
C24_Witness ==
    /\ Done
    /\ Len(tours) = 5
    /\ Cardinality(RefillIndexes) = 2

(***************************************************************************)
(* C25.  The total distance of a delivery tour with the stops s1..sn is    *)
(* dist(depot, s1), plus dist(si, si+1) for every two consecutive stops,   *)
(* plus dist(sn, depot), with the stops in the order they were placed; the *)
(* tour reports that sum rounded to two decimals.  A tour without stops    *)
(* has the total distance 0.                                               *)
(***************************************************************************)
\* the places a vehicle passes on a tour: the depot, the stops, the depot
Itinerary(t) ==
    <<PHq>> \o [i \in 1..Len(t.addresses) |->
                   <<OrZero(addr[t.addresses[i]].lat),
                     OrZero(addr[t.addresses[i]].lon)>>] \o <<PHq>>

\* the length of a path through the places w
PathLength(w) ==
    SumSeq([i \in 1..(Len(w) - 1) |->
               _calculate_distance(w[i][1], w[i][2], w[i + 1][1], w[i + 1][2])])

C25_TourDistance ==
    \A k \in DeliveryIndexes :
        IF tours[k].addresses = <<>> THEN tours[k].total_distance = 0
        ELSE tours[k].total_distance = Round2(PathLength(Itinerary(tours[k])))

\* a returned tour of three stops at three places, none of them the depot
C25_Witness ==
    /\ Done
    /\ \E k \in DeliveryIndexes :
          /\ Len(tours[k].addresses) = 3
          /\ Cardinality({addr[a].lon : a \in Range(tours[k].addresses)}) = 3
          /\ tours[k].total_distance > 0

(***************************************************************************)
(* C26.  As claimed: the distance function falls back to 0 only for a      *)
(* pair of coordinates that is missing or zero as a whole; for two pairs   *)
(* that each have a non-zero coordinate, such as a stop on longitude 0 at  *)
(* a latitude other than 0, it returns the haversine distance.  Stated for *)
(* the tours of one stop: such a tour has the total distance 0 when the    *)
(* stop has neither latitude nor longitude, and else twice the haversine   *)
(* distance between the depot and the stop.                                *)
(***************************************************************************)
C26_ZeroOnlyForMissingPair ==
    \A k \in DeliveryIndexes :
        Len(tours[k].addresses) = 1 =>
            LET a == tours[k].addresses[1]
                lat == OrZero(addr[a].lat)
                lon == OrZero(addr[a].lon)
            IN  IF lat = 0 /\ lon = 0 THEN tours[k].total_distance = 0
                ELSE tours[k].total_distance
                       = Round2(2 * Haversine(HQ_LAT, HQ_LON, lat, lon))

(***************************************************************************)
(* C27.  In the list optimize_routes returns, the delivery tours carry the *)
(* ids 1, 2, 3, ... in the order of the list, and every refill tour        *)
(* carries the id of the delivery tour that stands before it: an id is     *)
(* unique among the delivery tours, not in the list as a whole.            *)
(***************************************************************************)
\* how many delivery tours stand among the first k tours of the list
DeliveriesUpTo(k) == Cardinality({j \in DeliveryIndexes : j <= k})

C27_TourIds ==
    Done =>
        /\ \A k \in DeliveryIndexes : tours[k].id = DeliveriesUpTo(k)
        /\ \A k \in RefillIndexes :
              /\ k > 1
              /\ IsDelivery(tours[k - 1])
              /\ tours[k].id = tours[k - 1].id
        /\ \A j, k \in DeliveryIndexes : tours[j].id = tours[k].id => j = k

\* a returned list in which the ids 1 and 2 each stand twice, on a delivery
\* tour and on the refill tour behind it
C27_Witness ==
    /\ Done
    /\ Len(tours) = 5
    /\ tours[2].id = 1
    /\ tours[4].id = 2
    /\ tours[5].id = 3

(***************************************************************************)
(* C28.  Stops over the capacity do not starve the others: when            *)
(* optimize_routes returns, every input stop of at most                    *)
(* MAX_BOTTLES_PER_TRIP bottles stands exactly once in the delivery tours  *)
(* and is out of the pool, and the pool holds exactly the input stops of   *)
(* more bottles, none of which stands in a tour.                           *)
(***************************************************************************)
C28_InfeasibleDoNotStarve ==
    Done =>
        /\ \A a \in InputStops :
              IF addr[a].bottles <= MAX_BOTTLES_PER_TRIP
              THEN Occurrences(a) = 1
              ELSE Occurrences(a) = 0
        /\ Range(remaining_addresses)
             = {a \in InputStops : addr[a].bottles > MAX_BOTTLES_PER_TRIP}

\* a returned call on a pool of two stops that fit, placed in two tours,
\* and one stop over the capacity, left in the pool
C28_Witness ==
    /\ Done
    /\ Len(addresses) = 3
    /\ Len(remaining_addresses) = 1
    /\ Cardinality({k \in DeliveryIndexes : tours[k].addresses # <<>>}) = 2

(***************************************************************************)
(* C29.  As claimed: the tours returned to a POST /optimize request hold   *)
(* only stops that are in the store of the address manager when the engine *)
(* runs; a stop removed by a DELETE request that was served while the      *)
(* /optimize request awaited the geocoding stands in no returned tour.  In *)
(* the code the handler filters the list it took from the store before the *)
(* await.                                                                  *)
(***************************************************************************)
C29_ToursHoldStoredStopsOnly ==
    Done =>
        \A k \in DeliveryIndexes : Range(tours[k].addresses) \subseteq Range(store)

(***************************************************************************)
(* C30.  As claimed: a row whose priority cell is the text 'high' or       *)
(* 'hoch' is stored with Priority.HIGH, one with 'medium' or 'mittel' with *)
(* Priority.MEDIUM and one with 'low' or 'niedrig' with Priority.LOW, as   *)
(* the numeric cells 1, 2 and 3 are.  In the code the texts 'high' and     *)
(* 'hoch' are looked up as Priority(3), which is LOW, and 'low' and        *)
(* 'niedrig' as Priority(1), which is HIGH.                                *)
(***************************************************************************)
C30_TextPriorities ==
    \A i \in 1..Len(extracted) :
        /\ rows[i].text \in {"high", "hoch"} => extracted[i] = HIGH
        /\ rows[i].text \in {"medium", "mittel"} => extracted[i] = MEDIUM
        /\ rows[i].text \in {"low", "niedrig"} => extracted[i] = LOW

====
